---- MODULE Spec2Model ----
(***************************************************************************)
(* Severance entitlement and legal-cost recommendation engine               *)
(* (src/lib/calculations.ts, src/lib/tax-rates.ts,                          *)
(* src/lib/lawyer-cost-analysis.ts, the pricing table and their callers).   *)
(*                                                                          *)
(* The engine's functions are pure.  A behaviour of the model is one call:  *)
(* the initial state holds the function called and its arguments, the       *)
(* action of that function computes what the code returns (or that it       *)
(* throws).  A session is a sequence of such calls over the objects that    *)
(* outlive a call.                                                          *)
(*                                                                          *)
(* Numbers.  The code computes in IEEE doubles.  Every quantity below is    *)
(* an exact rational kept as an integer numerator over a fixed denominator  *)
(* that is named where it is used:                                          *)
(*   years of service      in twelfths  (years + months/12)                 *)
(*   age/position factors  in tenths    (0.8 is 8)                          *)
(*   months of notice      in 1/144000                                      *)
(*   tax rates             in 1/100000  (0.14975 is 14975)                  *)
(* Math.round(n/d) is floor(n/d + 1/2), Math.floor(n/d) is n \div d.        *)
(***************************************************************************)
EXTENDS Integers, Sequences, FiniteSets, TLC

VARIABLES
    call,   \* the function invoked
    args,   \* its arguments
    pc,     \* "called", then "returned" or "threw"
    ret,    \* the value returned, or the error once pc = "threw"
    heap    \* the objects that outlive a call: the two module-level tables
            \* and the options list its caller holds

vars == <<call, args, pc, ret, heap>>

\* An optional value (a number or an object that may be undefined) is a
\* sequence of at most one element: JavaScript's undefined is the empty one.
Undefined == <<>>
Some(v) == <<v>>
ValueOf(opt) == opt[1]

----------------------------------------------------------------------------
(* Math.min, Math.max, Math.round and Math.floor on rationals n/d, d > 0 *)

MathMin(a, b) == IF a < b THEN a ELSE b
MathMax(a, b) == IF a > b THEN a ELSE b
\* Math.round(n / d): the nearest integer, a half rounded towards +infinity
MathRound(n, d) == (2 * n + d) \div (2 * d)
\* Math.floor(n / d)
MathFloor(n, d) == n \div d

\* A property read obj.key: undefined when the object has no such key
Get(obj, key) == IF key \in DOMAIN obj THEN obj[key] ELSE Undefined

\* The value is a number (neither undefined nor an object)
IsNumber(v) == Len(v) = 1

\* JavaScript truthiness of a value that is undefined, a number or an
\* object: undefined and 0 are falsy
Truthy(v) == IF IsNumber(v) THEN ValueOf(v) # 0 ELSE v # Undefined

----------------------------------------------------------------------------
(* src/lib/types.ts *)

Province ==
    {"ON", "BC", "AB", "SK", "MB", "NS", "NB", "NL", "PE", "NT", "YT", "NU",
     "QC", "Federal"}

AgeRange == {"under-30", "30-40", "41-50", "51-60", "60-70", "70+"}

JobPosition ==
    {"upper-management", "middle-management", "lower-management",
     "salesperson", "sales-manager", "professional", "labourer", "clerical",
     "technical", "supervisor", "social-services"}

----------------------------------------------------------------------------
(* src/lib/calculations.ts *)

\* in tenths
getAgeMultiplier(ageRange) ==
    CASE ageRange = "under-30" -> 8
      [] ageRange = "30-40"    -> 10
      [] ageRange = "41-50"    -> 12
      [] ageRange = "51-60"    -> 14
      [] ageRange = "60-70"    -> 16
      [] ageRange = "70+"      -> 18

\* in tenths
getPositionMultiplier(jobPosition) ==
    CASE jobPosition = "upper-management"  -> 18
      [] jobPosition = "middle-management" -> 15
      [] jobPosition = "lower-management"  -> 13
      [] jobPosition = "sales-manager"     -> 14
      [] jobPosition = "professional"      -> 12
      [] jobPosition = "supervisor"        -> 11
      [] jobPosition = "technical"         -> 10
      [] jobPosition = "clerical"          -> 9
      [] jobPosition = "salesperson"       -> 9
      [] jobPosition = "labourer"          -> 8
      [] jobPosition = "social-services"   -> 10

\* totalYears = yearsOfService + monthsOfService / 12, in twelfths
TotalYears12(yearsOfService, monthsOfService) ==
    12 * yearsOfService + monthsOfService

\* One month of notice, in the unit months are kept in: 12 (years) * 12
\* (base) * 10 (age) * 10 (position) * 10 (the factors 0.6 and 1.2)
MonthUnit == 144000

\* WeeksOfMonths without the conversion: the months themselves, rounded
WeeksOfMonths_AsMonths(m) == (2 * m + MonthUnit) \div (2 * MonthUnit)

\* WeeksOfMonths with the weeks cut off, not rounded: Math.floor(months *
\* 4.33)
WeeksOfMonths_Floor(m) == (433 * m) \div (100 * MonthUnit)

\* Math.round(months * 4.33) for months = m / MonthUnit:
\* floor(433 m / (100 MonthUnit) + 1/2)
WeeksOfMonths(m) == (433 * m + 50 * MonthUnit) \div (100 * MonthUnit)

\* calculateCommonLawNotice without the floor of half a month under
\* minMonths
calculateCommonLawNotice_NoFloor(yearsOfService, monthsOfService, ageRange, jobPosition) ==
    LET totalYears == TotalYears12(yearsOfService, monthsOfService)
        baseMonths == MathMax(12, MathMin(24, totalYears))
        adjustedMonths ==
            baseMonths * totalYears * getAgeMultiplier(ageRange)
                * getPositionMultiplier(jobPosition)
        minMonths == MathMin(adjustedMonths * 6, 6 * MonthUnit)
        maxMonths == MathMin(adjustedMonths * 12, 24 * MonthUnit)
    IN  [minWeeks |-> WeeksOfMonths(minMonths),
         maxWeeks |-> WeeksOfMonths(maxMonths)]

calculateCommonLawNotice(yearsOfService, monthsOfService, ageRange, jobPosition) ==
    LET totalYears == TotalYears12(yearsOfService, monthsOfService)
        ageMultiplier == getAgeMultiplier(ageRange)
        positionMultiplier == getPositionMultiplier(jobPosition)
        \* in twelfths
        baseMonths == MathMax(12, MathMin(24, totalYears))
        \* in 1/14400
        adjustedMonths ==
            baseMonths * totalYears * ageMultiplier * positionMultiplier
        \* in 1/MonthUnit: 0.5 is 72000, 6 is 864000, 24 is 3456000
        minMonths == MathMax(MonthUnit \div 2,
                             MathMin(adjustedMonths * 6, 6 * MonthUnit))
        maxMonths == MathMin(adjustedMonths * 12, 24 * MonthUnit)
    IN  [minWeeks |-> WeeksOfMonths(minMonths),
         maxWeeks |-> WeeksOfMonths(maxMonths)]

\* getStatutoryNoticeWeeks with New Brunswick's case copied from its
\* neighbours: a cap of 8 weeks where the code has 4
getStatutoryNoticeWeeks_NBCap8(province, yearsOfService, monthsOfService) ==
    LET totalYears == TotalYears12(yearsOfService, monthsOfService)
    IN  IF province = "Federal"
        THEN IF totalYears < 12 THEN 0
             ELSE MathMin(2 + MathFloor(totalYears - 12, 12), 8)
        ELSE IF province = "PE"
        THEN MathMin(MathFloor(totalYears, 12), 4)
        ELSE MathMin(MathFloor(totalYears, 12), 8)

\* getStatutoryNoticeWeeks whose default case gives no notice at all
getStatutoryNoticeWeeks_DefaultZero(province, yearsOfService, monthsOfService) ==
    LET totalYears == TotalYears12(yearsOfService, monthsOfService)
    IN  IF province = "Federal"
        THEN IF totalYears < 12 THEN 0
             ELSE MathMin(2 + MathFloor(totalYears - 12, 12), 8)
        ELSE IF province \in {"NB", "PE"}
        THEN MathMin(MathFloor(totalYears, 12), 4)
        ELSE IF province \in Province
        THEN MathMin(MathFloor(totalYears, 12), 8)
        ELSE 0

getStatutoryNoticeWeeks(province, yearsOfService, monthsOfService) ==
    LET totalYears == TotalYears12(yearsOfService, monthsOfService)
    IN  CASE province = "ON" -> MathMin(MathFloor(totalYears, 12), 8)
          [] province = "BC" -> MathMin(MathFloor(totalYears, 12), 8)
          [] province = "AB" -> MathMin(MathFloor(totalYears, 12), 8)
          [] province = "SK" -> MathMin(MathFloor(totalYears, 12), 8)
          [] province = "MB" -> MathMin(MathFloor(totalYears, 12), 8)
          [] province = "NS" -> MathMin(MathFloor(totalYears, 12), 8)
          [] province = "NB" -> MathMin(MathFloor(totalYears, 12), 4)
          [] province = "NL" -> MathMin(MathFloor(totalYears, 12), 8)
          [] province = "PE" -> MathMin(MathFloor(totalYears, 12), 4)
          [] province \in {"NT", "YT", "NU"} ->
                 MathMin(MathFloor(totalYears, 12), 8)
          [] province = "QC" -> MathMin(MathFloor(totalYears, 12), 8)
          [] province = "Federal" ->
                 IF totalYears < 12 THEN 0
                 ELSE MathMin(2 + MathFloor(totalYears - 12, 12), 8)
          [] OTHER -> MathMin(MathFloor(totalYears, 12), 8)

\* getStatutorySeveranceWeeks without the payroll threshold: any declared
\* payroll qualifies
getStatutorySeveranceWeeks_AnyPayroll(province, yearsOfService, monthsOfService, employerPayroll) ==
    IF province # "ON" THEN Undefined
    ELSE LET totalYears == TotalYears12(yearsOfService, monthsOfService)
         IN  IF Truthy(employerPayroll) /\ totalYears >= 5 * 12
             THEN Some(MathMin(MathFloor(totalYears, 12), 26))
             ELSE Undefined

getStatutorySeveranceWeeks(province, yearsOfService, monthsOfService, employerPayroll) ==
    IF province # "ON" THEN Undefined
    ELSE LET totalYears == TotalYears12(yearsOfService, monthsOfService)
         IN  IF Truthy(employerPayroll)
                /\ ValueOf(employerPayroll) >= 2500000
                /\ totalYears >= 5 * 12
             THEN Some(MathMin(MathFloor(totalYears, 12), 26))
             ELSE Undefined

\* the amount cut off at whole dollars instead of rounded
AmountOfWeeks_Truncated(weeks, annualSalary) ==
    (weeks * annualSalary) \div 52

\* Math.round(weeks * weeklySalary) with weeklySalary = annualSalary / 52
AmountOfWeeks(weeks, annualSalary) == MathRound(weeks * annualSalary, 52)

\* MidpointWeeks with a half rounded down
MidpointWeeks_HalfDown(minWeeks, maxWeeks) == (minWeeks + maxWeeks) \div 2

\* Math.round((minWeeks + maxWeeks) / 2)
MidpointWeeks(minWeeks, maxWeeks) == MathRound(minWeeks + maxWeeks, 2)

\* calculateSeverance whose union short-circuit zeroes the common-law
\* figures only and still reports the statutory minimum
calculateSeverance_UnionKeepsStatutory(input) ==
    LET statutoryWeeks ==
            getStatutoryNoticeWeeks(input.province, input.yearsOfService,
                                    input.monthsOfService)
    IN  [statutoryMinimum |->
             [weeks |-> statutoryWeeks,
              amount |-> AmountOfWeeks(statutoryWeeks, input.annualSalary)],
         commonLawRange |-> [minWeeks |-> 0, maxWeeks |-> 0,
                             minAmount |-> 0, maxAmount |-> 0],
         recommendedRange |-> [weeks |-> 0, amount |-> 0]]

calculateSeverance(input) ==
    IF input.isUnionized
    THEN [statutoryMinimum |-> [weeks |-> 0, amount |-> 0],
          commonLawRange |-> [minWeeks |-> 0, maxWeeks |-> 0,
                              minAmount |-> 0, maxAmount |-> 0],
          recommendedRange |-> [weeks |-> 0, amount |-> 0]]
    ELSE
    LET annualSalary == input.annualSalary
        statutoryWeeks ==
            getStatutoryNoticeWeeks(input.province, input.yearsOfService,
                                    input.monthsOfService)
        statutoryAmount == AmountOfWeeks(statutoryWeeks, annualSalary)
        severanceWeeks ==
            getStatutorySeveranceWeeks(input.province, input.yearsOfService,
                                       input.monthsOfService,
                                       input.employerPayroll)
        severanceAmount ==
            IF Truthy(severanceWeeks)
            THEN Some(AmountOfWeeks(ValueOf(severanceWeeks), annualSalary))
            ELSE Undefined
        commonLaw ==
            calculateCommonLawNotice(input.yearsOfService,
                                     input.monthsOfService,
                                     input.ageRange, input.jobPosition)
        commonLawMinAmount == AmountOfWeeks(commonLaw.minWeeks, annualSalary)
        commonLawMaxAmount == AmountOfWeeks(commonLaw.maxWeeks, annualSalary)
        recommendedWeeks ==
            MidpointWeeks(commonLaw.minWeeks, commonLaw.maxWeeks)
        recommendedAmount == AmountOfWeeks(recommendedWeeks, annualSalary)
    IN  [statutoryMinimum |-> [weeks |-> statutoryWeeks,
                               amount |-> statutoryAmount],
         statutorySeverance |->
             IF Truthy(severanceWeeks)
             THEN Some([weeks |-> ValueOf(severanceWeeks),
                        amount |-> ValueOf(severanceAmount)])
             ELSE Undefined,
         commonLawRange |-> [minWeeks |-> commonLaw.minWeeks,
                             maxWeeks |-> commonLaw.maxWeeks,
                             minAmount |-> commonLawMinAmount,
                             maxAmount |-> commonLawMaxAmount],
         recommendedRange |-> [weeks |-> recommendedWeeks,
                               amount |-> recommendedAmount]]

----------------------------------------------------------------------------
(* src/lib/tax-rates.ts *)

\* One, in the unit tax rates are kept in: 0.14975 is 14975
RateUnit == 100000

TAX_RATES ==
    [p \in Province |->
        CASE p = "ON" -> 13000
          [] p = "BC" -> 12000
          [] p = "AB" -> 5000
          [] p = "SK" -> 11000
          [] p = "MB" -> 12000
          [] p = "NS" -> 15000
          [] p = "NB" -> 15000
          [] p = "NL" -> 15000
          [] p = "PE" -> 15000
          [] p = "NT" -> 5000
          [] p = "YT" -> 5000
          [] p = "NU" -> 5000
          [] p = "QC" -> 14975
          [] p = "Federal" -> 5000]

\* The names every object literal inherits from Object.prototype: table[key]
\* finds them when the table has no own property of that name.
ObjectPrototypeKeys ==
    {"constructor", "toString", "valueOf", "hasOwnProperty", "__proto__"}

\* The inherited member table[key] evaluates to: an object, not a number
Inherited(key) == <<"Object.prototype", key>>

\* table[key] for an object literal: undefined, Some(own value) or the
\* inherited member
Lookup(table, key) ==
    IF key \in DOMAIN table THEN Some(table[key])
    ELSE IF key \in ObjectPrototypeKeys THEN Inherited(key)
    ELSE Undefined

\* a || b
Or(a, b) == IF Truthy(a) THEN a ELSE b

getTaxRate(province) == Or(Lookup(TAX_RATES, province), Some(5000))

----------------------------------------------------------------------------
(* The pricing table (lib/lawyer-pricing) *)

Pricing(p, cMin, cMax, cAverage, hMin, hMax, hAverage, fMin, fMax, pct) ==
    [province |-> p,
     consultationFee |-> [min |-> cMin, max |-> cMax, average |-> cAverage],
     hourlyRate |-> [min |-> hMin, max |-> hMax, average |-> hAverage],
     flatFeeRange |-> [min |-> fMin, max |-> fMax],
     contingencyFee |-> [percentage |-> pct]]

lawyerPricingByProvince ==
    [p \in Province |->
        CASE p \in {"ON", "BC", "QC", "Federal"} ->
                 Pricing(p, 200, 500, 350, 300, 600, 450, 2000, 5000, 25)
          [] p \in {"AB", "NT", "YT", "NU"} ->
                 Pricing(p, 200, 450, 325, 275, 550, 400, 1800, 4500, 25)
          [] p \in {"SK", "MB", "NS", "NB", "NL"} ->
                 Pricing(p, 150, 400, 275, 250, 500, 375, 1500, 4000, 25)
          [] p = "PE" ->
                 Pricing(p, 150, 350, 250, 225, 450, 350, 1200, 3500, 25)]

----------------------------------------------------------------------------
(* src/lib/lawyer-cost-analysis.ts *)

\* estimateHours without the complexity multiplier: the base hours alone
estimateHours_BaseOnly(gap, complexity) ==
    IF gap < 10000 THEN 5 ELSE IF gap < 30000 THEN 8 ELSE 12

\* Math.round(baseHours * multiplier), the multiplier in tenths
estimateHours(gap, complexity) ==
    LET baseHours == IF gap < 10000 THEN 5 ELSE IF gap < 30000 THEN 8 ELSE 12
        multipliers == [simple |-> 10, moderate |-> 15, complex |-> 20]
    IN  MathRound(baseHours * multipliers[complexity], 10)

determineComplexity(gap) ==
    IF gap < 10000 THEN "simple"
    ELSE IF gap < 30000 THEN "moderate"
    ELSE "complex"

\* there is potential value: a gap from the offer or an upside from the
\* statutory minimum
hasValue_ZeroGap(potentialGap) == potentialGap >= 0

hasValue_AboveOne(potentialGap) == potentialGap > 1

hasValue(potentialGap) == potentialGap > 0

\* the tax cut off at whole dollars instead of rounded
TaxOf_Truncated(base, taxRate) == (base * taxRate) \div RateUnit

\* Math.round(base * taxRate) for a rate of taxRate / RateUnit
TaxOf(base, taxRate) == (base * taxRate + RateUnit \div 2) \div RateUnit

\* n || 0
OrZero(n) == n

\* highest net benefit first, with no preference for contingency
CompareOptions_NetBenefitOnly(a, b, potentialGap) ==
    OrZero(b.netBenefit) - OrZero(a.netBenefit)

\* the comparator handed to sort: negative when a goes before b
CompareOptions(a, b, potentialGap) ==
    LET netBenefitDiff == OrZero(b.netBenefit) - OrZero(a.netBenefit)
        abs == IF netBenefitDiff < 0 THEN -netBenefitDiff ELSE netBenefitDiff
    IN  \* Math.abs(netBenefitDiff) < potentialGap * 0.1
        IF 10 * abs < potentialGap
           /\ a.type = "contingency" /\ b.type # "contingency"
        THEN -1
        ELSE IF 10 * abs < potentialGap
                /\ b.type = "contingency" /\ a.type # "contingency"
        THEN 1
        ELSE netBenefitDiff

\* Array.prototype.sort, which is stable: x goes behind the last element
\* that does not have to follow it
InsertSorted(sorted, x, potentialGap) ==
    LET before == {j \in 1 .. Len(sorted) :
                      CompareOptions(sorted[j], x, potentialGap) <= 0}
        k == IF before = {} THEN 0
             ELSE CHOOSE j \in before : \A i \in before : i <= j
    IN  SubSeq(sorted, 1, k) \o <<x>> \o SubSeq(sorted, k + 1, Len(sorted))

RECURSIVE SortOptions(_, _)
SortOptions(opts, potentialGap) ==
    IF opts = <<>> THEN <<>>
    ELSE InsertSorted(SortOptions(SubSeq(opts, 1, Len(opts) - 1),
                                  potentialGap),
                      opts[Len(opts)], potentialGap)

\* The value is an object with own properties (a record of the model)
IsObject(v) == Len(v) = 1

\* What a call completes with: Some(value) when it returns, this when it
\* throws
Throw(error) == <<"throw", error>>

\* PushOptions with the contingency option pushed before the flat one
PushOptions_ContingencyBeforeFlat(pricing, potentialGap, consultation, hourly, flat, contingency) ==
    <<consultation>>
    \o (IF hasValue(potentialGap) THEN <<hourly>> ELSE <<>>)
    \o (IF "contingencyFee" \in DOMAIN pricing /\ hasValue(potentialGap)
        THEN <<contingency>> ELSE <<>>)
    \o (IF "flatFeeRange" \in DOMAIN pricing /\ hasValue(potentialGap)
        THEN <<flat>> ELSE <<>>)

\* The options array after the four blocks that push to it: the
\* consultation always, the others under their conditions, in this order
PushOptions(pricing, potentialGap, consultation, hourly, flat, contingency) ==
    <<consultation>>
    \o (IF hasValue(potentialGap) THEN <<hourly>> ELSE <<>>)
    \o (IF "flatFeeRange" \in DOMAIN pricing /\ hasValue(potentialGap)
        THEN <<flat>> ELSE <<>>)
    \o (IF "contingencyFee" \in DOMAIN pricing /\ hasValue(potentialGap)
        THEN <<contingency>> ELSE <<>>)

\* ContingencyFeeOf with the cents cut off, not rounded
ContingencyFeeOf_Truncated(potentialGap, percentage) ==
    (potentialGap * percentage) \div 100

\* Math.round(potentialGap * contingencyPercentage) with
\* contingencyPercentage = percentage / 100: the rounded quotient.  (For
\* the percentages 0, 25, 30 and 33 the doubles give this for every gap up
\* to 400,000; for some others, such as 29 at a gap of 50, the product in
\* doubles falls just short of a half and the fee is a dollar less.)
ContingencyFeeOf(potentialGap, percentage) ==
    MathRound(potentialGap * percentage, 100)

\* analyzeLawyerCosts that works the gap out again from the offer and the
\* amounts it is passed, not from the gap it is passed
analyzeLawyerCosts_GapFromAmounts(lawyerPricing, province, currentOffer, recommendedAmount, gapPassed, statutoryMinimum, customHours, customContingencyPercentage, customFlatFee, customTaxRate) ==
    \* lawyerPricing.consultationFee.average of undefined, or of an object
    \* that has no consultationFee
    IF ~IsObject(lawyerPricing) THEN Throw("TypeError")
    ELSE
    LET pricing == ValueOf(lawyerPricing)
        taxRate == ValueOf(IF customTaxRate # Undefined THEN customTaxRate
                           ELSE getTaxRate(province))
        isBasedOnOffer ==
            currentOffer # Undefined /\ ValueOf(currentOffer) > 0
        potentialGap ==
            IF isBasedOnOffer THEN recommendedAmount - ValueOf(currentOffer)
            ELSE recommendedAmount - statutoryMinimum
        \* Option 1: Consultation Only
        consultationBase == pricing.consultationFee.average
        consultationTax == TaxOf(consultationBase, taxRate)
        consultationTotal == consultationBase + consultationTax
        consultation ==
            [type |-> "consultation",
             name |-> [text |-> "Initial Consultation Only"],
             description |->
                 [text |-> "Get legal advice and review your severance package"],
             baseCost |-> consultationBase,
             tax |-> consultationTax,
             totalCost |-> consultationTotal,
             netBenefit |-> IF hasValue(potentialGap) THEN potentialGap - consultationTotal
                            ELSE -consultationTotal]
        \* Option 2: Hourly Rate
        complexity == determineComplexity(potentialGap)
        estimatedHours ==
            IF customHours # Undefined THEN ValueOf(customHours)
            ELSE estimateHours(potentialGap, complexity)
        hourlyBase == pricing.hourlyRate.average * estimatedHours
        hourlyTax == TaxOf(hourlyBase, taxRate)
        hourlyTotal == hourlyBase + hourlyTax
        hourly ==
            [type |-> "hourly",
             name |-> [text |-> "Hourly Rate",
                       hours |-> estimatedHours,
                       custom |-> customHours # Undefined],
             description |->
                 [text |-> "Pay by the hour for negotiation services",
                  case |-> IF customHours = Undefined THEN complexity
                           ELSE ""],
             baseCost |-> hourlyBase,
             tax |-> hourlyTax,
             totalCost |-> hourlyTotal,
             netBenefit |-> potentialGap - hourlyTotal]
        \* Option 3: Flat Fee
        flatFeeBase ==
            IF customFlatFee # Undefined THEN ValueOf(customFlatFee)
            ELSE pricing.flatFeeRange.min
        flatFeeTax == TaxOf(flatFeeBase, taxRate)
        flatFeeTotal == flatFeeBase + flatFeeTax
        flat ==
            [type |-> "flat",
             name |-> [text |-> "Flat Fee Package",
                       custom |-> customFlatFee # Undefined],
             description |->
                 [text |-> "Fixed fee for complete severance negotiation and review"],
             baseCost |-> flatFeeBase,
             tax |-> flatFeeTax,
             totalCost |-> flatFeeTotal,
             netBenefit |-> potentialGap - flatFeeTotal]
        \* Option 4: Contingency Fee; Math.round(gap * (percentage / 100))
        \* is the rounded quotient for the percentages 0, 25, 30 and 33
        displayPercentage ==
            IF customContingencyPercentage # Undefined
            THEN ValueOf(customContingencyPercentage)
            ELSE pricing.contingencyFee.percentage
        contingencyFee == ContingencyFeeOf(potentialGap, displayPercentage)
        contingencyTax == TaxOf(contingencyFee, taxRate)
        contingencyTotal == contingencyFee + contingencyTax
        estimatedRecovery == potentialGap - contingencyTotal
        contingency ==
            [type |-> "contingency",
             name |-> [text |-> "Contingency Fee",
                       percentage |-> displayPercentage,
                       custom |-> customContingencyPercentage # Undefined],
             description |->
                 [text |-> "Pay only if lawyer successfully recovers additional severance"],
             baseCost |-> contingencyFee,
             tax |-> contingencyTax,
             totalCost |-> contingencyTotal,
             estimatedRecovery |-> estimatedRecovery,
             netBenefit |-> estimatedRecovery]
        options ==
            PushOptions(pricing, potentialGap, consultation, hourly, flat,
                        contingency)
        \* Determine recommended option
        actionableOptions ==
            SelectSeq(options, LAMBDA opt : opt.type # "consultation")
        sortedOptions == SortOptions(actionableOptions, potentialGap)
        recommended ==
            IF hasValue(potentialGap)
            THEN IF Len(actionableOptions) > 0 THEN sortedOptions[1]
                 ELSE options[1]
            ELSE options[1]
    IN  Some([options |-> options,
              recommended |-> recommended,
              potentialGap |-> potentialGap,
              province |-> province])

\* lawyerPricing is what the caller passes: Some(record), or undefined or
\* an inherited member when the caller's table lookup found no record
analyzeLawyerCosts(lawyerPricing, province, currentOffer, recommendedAmount, potentialGap, statutoryMinimum, customHours, customContingencyPercentage, customFlatFee, customTaxRate) ==
    \* lawyerPricing.consultationFee.average of undefined, or of an object
    \* that has no consultationFee
    IF ~IsObject(lawyerPricing) THEN Throw("TypeError")
    ELSE
    LET pricing == ValueOf(lawyerPricing)
        taxRate == ValueOf(IF customTaxRate # Undefined THEN customTaxRate
                           ELSE getTaxRate(province))
        isBasedOnOffer ==
            currentOffer # Undefined /\ ValueOf(currentOffer) > 0
        \* Option 1: Consultation Only
        consultationBase == pricing.consultationFee.average
        consultationTax == TaxOf(consultationBase, taxRate)
        consultationTotal == consultationBase + consultationTax
        consultation ==
            [type |-> "consultation",
             name |-> [text |-> "Initial Consultation Only"],
             description |->
                 [text |-> "Get legal advice and review your severance package"],
             baseCost |-> consultationBase,
             tax |-> consultationTax,
             totalCost |-> consultationTotal,
             netBenefit |-> IF hasValue(potentialGap) THEN potentialGap - consultationTotal
                            ELSE -consultationTotal]
        \* Option 2: Hourly Rate
        complexity == determineComplexity(potentialGap)
        estimatedHours ==
            IF customHours # Undefined THEN ValueOf(customHours)
            ELSE estimateHours(potentialGap, complexity)
        hourlyBase == pricing.hourlyRate.average * estimatedHours
        hourlyTax == TaxOf(hourlyBase, taxRate)
        hourlyTotal == hourlyBase + hourlyTax
        hourly ==
            [type |-> "hourly",
             name |-> [text |-> "Hourly Rate",
                       hours |-> estimatedHours,
                       custom |-> customHours # Undefined],
             description |->
                 [text |-> "Pay by the hour for negotiation services",
                  case |-> IF customHours = Undefined THEN complexity
                           ELSE ""],
             baseCost |-> hourlyBase,
             tax |-> hourlyTax,
             totalCost |-> hourlyTotal,
             netBenefit |-> potentialGap - hourlyTotal]
        \* Option 3: Flat Fee
        flatFeeBase ==
            IF customFlatFee # Undefined THEN ValueOf(customFlatFee)
            ELSE pricing.flatFeeRange.min
        flatFeeTax == TaxOf(flatFeeBase, taxRate)
        flatFeeTotal == flatFeeBase + flatFeeTax
        flat ==
            [type |-> "flat",
             name |-> [text |-> "Flat Fee Package",
                       custom |-> customFlatFee # Undefined],
             description |->
                 [text |-> "Fixed fee for complete severance negotiation and review"],
             baseCost |-> flatFeeBase,
             tax |-> flatFeeTax,
             totalCost |-> flatFeeTotal,
             netBenefit |-> potentialGap - flatFeeTotal]
        \* Option 4: Contingency Fee; Math.round(gap * (percentage / 100))
        \* is the rounded quotient for the percentages 0, 25, 30 and 33
        displayPercentage ==
            IF customContingencyPercentage # Undefined
            THEN ValueOf(customContingencyPercentage)
            ELSE pricing.contingencyFee.percentage
        contingencyFee == ContingencyFeeOf(potentialGap, displayPercentage)
        contingencyTax == TaxOf(contingencyFee, taxRate)
        contingencyTotal == contingencyFee + contingencyTax
        estimatedRecovery == potentialGap - contingencyTotal
        contingency ==
            [type |-> "contingency",
             name |-> [text |-> "Contingency Fee",
                       percentage |-> displayPercentage,
                       custom |-> customContingencyPercentage # Undefined],
             description |->
                 [text |-> "Pay only if lawyer successfully recovers additional severance"],
             baseCost |-> contingencyFee,
             tax |-> contingencyTax,
             totalCost |-> contingencyTotal,
             estimatedRecovery |-> estimatedRecovery,
             netBenefit |-> estimatedRecovery]
        options ==
            PushOptions(pricing, potentialGap, consultation, hourly, flat,
                        contingency)
        \* Determine recommended option
        actionableOptions ==
            SelectSeq(options, LAMBDA opt : opt.type # "consultation")
        sortedOptions == SortOptions(actionableOptions, potentialGap)
        recommended ==
            IF hasValue(potentialGap)
            THEN IF Len(actionableOptions) > 0 THEN sortedOptions[1]
                 ELSE options[1]
            ELSE options[1]
    IN  Some([options |-> options,
              recommended |-> recommended,
              potentialGap |-> potentialGap,
              province |-> province])

----------------------------------------------------------------------------
(* src/lib/decision-guide.ts *)

\* The text Intl.NumberFormat makes of Math.round(amount) in CAD; amounts
\* are whole dollars already
formatCurrency(amount) == [currency |-> "CAD", dollars |-> amount]

\* options.find(o => o.type === type)
Find(options, type) ==
    LET found == SelectSeq(options, LAMBDA o : o.type = type)
    IN  IF found = <<>> THEN Undefined ELSE Some(found[1])

\* Math.round((baseCost / potentialGap) * 100), Infinity at a gap of zero
PercentOfRecovery(baseCost, potentialGap) ==
    IF potentialGap = 0 THEN <<"Infinity">>
    ELSE IF potentialGap > 0
    THEN Some(MathRound(100 * baseCost, potentialGap))
    ELSE Some(MathRound(-100 * baseCost, -potentialGap))

\* The title of the guidance entry of an option type
GuidanceTitle ==
    [consultation |-> "Consultation Only",
     hourly |-> "Hourly Rate",
     flat |-> "Flat Fee Package",
     contingency |-> "Contingency Fee"]

\* one entry per option given, in the order given
getDecisionGuidance_InputOrder(potentialGap, options) ==
    [i \in 1 .. Len(options) |->
        [title |-> GuidanceTitle[options[i].type],
         cost |-> formatCurrency(options[i].totalCost)]]

getDecisionGuidance(potentialGap, options) ==
    LET consultationOption == Find(options, "consultation")
        hourlyOption == Find(options, "hourly")
        flatOption == Find(options, "flat")
        contingencyOption == Find(options, "contingency")
    IN  (IF consultationOption # Undefined
         THEN <<[title |-> "Consultation Only",
                 cost |-> formatCurrency(
                              ValueOf(consultationOption).totalCost)]>>
         ELSE <<>>)
        \o (IF hourlyOption # Undefined
            THEN <<[title |-> "Hourly Rate",
                    cost |-> formatCurrency(
                                 ValueOf(hourlyOption).totalCost)]>>
            ELSE <<>>)
        \o (IF flatOption # Undefined
            THEN <<[title |-> "Flat Fee Package",
                    cost |-> formatCurrency(
                                 ValueOf(flatOption).totalCost)]>>
            ELSE <<>>)
        \o (IF contingencyOption # Undefined
            THEN LET option == ValueOf(contingencyOption)
                 IN  <<[title |-> "Contingency Fee",
                        fee |-> IF option.baseCost # 0
                                THEN Some([cost |->
                                               formatCurrency(option.baseCost),
                                           percent |->
                                               PercentOfRecovery(
                                                   option.baseCost,
                                                   potentialGap)])
                                ELSE Undefined,
                        recovery |->
                            IF "estimatedRecovery" \in DOMAIN option
                               /\ option.estimatedRecovery # 0
                            THEN Some(formatCurrency(
                                          option.estimatedRecovery))
                            ELSE Undefined]>>
            ELSE <<>>)

----------------------------------------------------------------------------
(* src/components/demand-letter.tsx: the CalculatorResults component *)

\* the guidance for whatever options there are, without looking at the gap
decisionGuidance_Unguarded(potentialGap, options) ==
    getDecisionGuidance(potentialGap, options)

\* The guidance the component shows: none unless there is a gap
decisionGuidance(potentialGap, options) ==
    IF potentialGap > 0 THEN getDecisionGuidance(potentialGap, options)
    ELSE <<>>

\* the statutory notice amount alone
totalStatutory_NoticeOnly(results) == results.statutoryMinimum.amount

\* statutoryMinimum.amount + (statutorySeverance?.amount || 0)
totalStatutory(results) ==
    LET statutoryMinimum == results.statutoryMinimum
        statutorySeverance == Get(results, "statutorySeverance")
    IN  statutoryMinimum.amount
        + (IF statutorySeverance # Undefined
           THEN ValueOf(statutorySeverance).amount ELSE 0)

\* What the component computes before it draws: the gap, the cost analysis
\* and the decision guide; it throws what analyzeLawyerCosts throws
CalculatorResults(props) ==
    LET recommendedRange == props.results.recommendedRange
        \* null when there is no offer or an offer of 0
        gap == IF Truthy(props.currentOffer)
               THEN Some(recommendedRange.amount - ValueOf(props.currentOffer))
               ELSE Undefined
        potentialUpside == recommendedRange.amount - totalStatutory(props.results)
        potentialGap ==
            IF Truthy(gap) /\ ValueOf(gap) > 0 THEN ValueOf(gap)
            ELSE IF potentialUpside > 0 THEN potentialUpside ELSE 0
        baseTaxRate == getTaxRate(props.province)
        taxRate == IF props.includeHST THEN baseTaxRate ELSE Some(0)
        analysis ==
            analyzeLawyerCosts(props.lawyerPricing, props.province,
                               props.currentOffer, recommendedRange.amount,
                               potentialGap, totalStatutory(props.results),
                               props.customHours,
                               props.customContingencyPercentage,
                               props.customFlatFee, taxRate)
    IN  IF ~IsObject(analysis) THEN analysis
        ELSE Some([view |-> "results",
                   results |-> props.results,
                   potentialGap |-> potentialGap,
                   analysis |-> ValueOf(analysis),
                   decisionGuidance |->
                       decisionGuidance(potentialGap,
                                        ValueOf(analysis).options)])

----------------------------------------------------------------------------
(* src/components/results-page.tsx *)

HOURS_PER_YEAR == 2080

\* The results the page computes from its form data: undefined stands for
\* null
results(formData, salaryInputType) ==
    LET annualSalaryForCalc ==
            IF Truthy(formData.annualSalary) /\ salaryInputType = "hourly"
            THEN Some(ValueOf(formData.annualSalary) * HOURS_PER_YEAR)
            ELSE formData.annualSalary
    IN  IF /\ formData.province # ""
           /\ formData.ageRange # ""
           /\ formData.jobPosition # ""
           /\ Truthy(annualSalaryForCalc)
           /\ ValueOf(annualSalaryForCalc) > 0
        THEN Some(calculateSeverance(
                 [province |-> formData.province,
                  yearsOfService |-> formData.yearsOfService,
                  monthsOfService |-> formData.monthsOfService,
                  ageRange |-> formData.ageRange,
                  jobPosition |-> formData.jobPosition,
                  annualSalary |-> ValueOf(annualSalaryForCalc),
                  isUnionized |-> formData.isUnionized,
                  currentOffer |-> formData.currentOffer,
                  employerPayroll |-> formData.employerPayroll]))
        ELSE Undefined

\* One render of the page: the message "Invalid or missing calculation
\* data" without results, otherwise the CalculatorResults component with
\* the pricing record looked up for the province of the form
ResultsPage(formData, salaryInputType, customHours, customContingencyPercentage, customFlatFee, includeHST) ==
    IF results(formData, salaryInputType) = Undefined
    THEN Some([view |-> "invalid"])
    ELSE CalculatorResults(
             [results |-> ValueOf(results(formData, salaryInputType)),
              currentOffer |-> formData.currentOffer,
              province |-> formData.province,
              lawyerPricing |->
                  Lookup(lawyerPricingByProvince, formData.province),
              customHours |-> customHours,
              customContingencyPercentage |-> customContingencyPercentage,
              customFlatFee |-> customFlatFee,
              includeHST |-> includeHST])

----------------------------------------------------------------------------
(* Inputs *)

\* Jurisdiction codes a caller can pass that are none of Province: the page
\* reads the code from the URL and does not check it.
OtherCodes == {"XX", "constructor"}

MaxYears == 27

\* Every jurisdiction, length of service, age range and position, for a
\* salary of 2,000 a week and an employer at the payroll threshold.
SweepInput ==
    [province : Province \cup OtherCodes,
     yearsOfService : 0 .. MaxYears,
     monthsOfService : 0 .. 11,
     ageRange : AgeRange,
     jobPosition : JobPosition,
     annualSalary : {104000},
     isUnionized : {FALSE},
     currentOffer : {Undefined},
     employerPayroll : {Some(2500000)}]

\* Every jurisdiction and length of service, malformed ones included, with
\* every salary, payroll and union flag, for the page's default age range
\* and position.
EdgeInput ==
    [province : Province \cup OtherCodes,
     yearsOfService : -1 .. MaxYears,
     monthsOfService : -1 .. 12,
     ageRange : {"30-40"},
     jobPosition : {"professional"},
     annualSalary : {-52000, 0, 60000, 104000},
     isUnionized : BOOLEAN,
     currentOffer : {Undefined},
     employerPayroll :
         {Undefined, Some(0), Some(2499999), Some(2500000)}]

\* What the page can hold after parsing the URL or an edit; a salary typed
\* as an hourly wage is a small number
FormData ==
    [province : {"ON", "Federal", "PE", "XX", "constructor"},
     yearsOfService : {-1, 0, 10},
     monthsOfService : {-1, 0, 6, 12},
     ageRange : {"41-50"},
     jobPosition : {"professional"},
     annualSalary : {Undefined, Some(-25), Some(0), Some(50), Some(104000)},
     isUnionized : BOOLEAN,
     currentOffer : {Undefined, Some(0), Some(30000)},
     employerPayroll : {Undefined, Some(2500000)}]

\* The settings of the cost panel: hours, contingency percentage, flat fee
Settings ==
    [customHours : {Undefined, Some(10)},
     customContingencyPercentage : {Undefined, Some(30)},
     customFlatFee : {Undefined, Some(3000)},
     includeHST : BOOLEAN]

\* A pricing record without some of its optional tiers
Without(pricing, tiers) ==
    [key \in DOMAIN pricing \ tiers |-> pricing[key]]

\* What a caller can pass as lawyerPricing: the record of a jurisdiction of
\* each pricing level, one that lacks optional tiers, or what the table
\* lookup yields for a code it does not have
LawyerPricingInput ==
    {Lookup(lawyerPricingByProvince, code) :
         code \in {"ON", "AB", "SK", "PE", "XX"}}
    \cup {Some(Without(lawyerPricingByProvince["ON"], tiers)) :
              tiers \in {{"flatFeeRange"}, {"contingencyFee"},
                         {"flatFeeRange", "contingencyFee"}}}

\* Calls of analyzeLawyerCosts: gaps on both sides of zero and of the
\* complexity thresholds, with and without each custom setting (a flat fee
\* of 9,000 is what 20 hours cost at Ontario's average rate); the
\* jurisdictions are ones whose tax rate is a number
AnalysisInput ==
    [lawyerPricing : LawyerPricingInput,
     province : {"ON", "AB", "QC", "XX"},
     currentOffer : {Undefined, Some(20000)},
     recommendedAmount : {40000},
     potentialGap : {-5000, 0, 1, 4000, 9999, 10000, 20000, 29999, 30000,
                     60000},
     statutoryMinimum : {0, 16000},
     customHours : {Undefined, Some(1), Some(20)},
     customContingencyPercentage : {Undefined, Some(0), Some(33)},
     customFlatFee : {Undefined, Some(0), Some(2500), Some(9000),
                      Some(12000)},
     customTaxRate : {Undefined, Some(0), Some(13000)}]

MaxOptions == 4

\* Options a caller of getDecisionGuidance can hold: the four of an Ontario
\* analysis, the hourly option of an Alberta one, and a contingency option
\* at 0% whose fee is 0
OptionPool ==
    ValueOf(analyzeLawyerCosts(Some(lawyerPricingByProvince["ON"]), "ON",
                               Undefined, 40000, 20000, 16000, Undefined,
                               Undefined, Undefined, Undefined)).options
    \o <<ValueOf(analyzeLawyerCosts(Some(lawyerPricingByProvince["AB"]),
                                    "AB", Undefined, 40000, 4000, 16000,
                                    Undefined, Undefined, Undefined,
                                    Undefined)).options[2],
         ValueOf(analyzeLawyerCosts(Some(lawyerPricingByProvince["ON"]),
                                    "ON", Undefined, 40000, 20000, 16000,
                                    Undefined, Some(0), Undefined,
                                    Some(0))).options[4]>>

\* The list of the pool's options at the given positions
OptionsAt(positions) ==
    [i \in 1 .. Len(positions) |-> OptionPool[positions[i]]]

\* A completion is a throw
Threw(completion) == Len(completion) = 2

\* Where the call is after a completion, and what it left behind: the
\* value returned or the error thrown
Outcome(completion) == IF Threw(completion) THEN "threw" ELSE "returned"
Payload(completion) == completion[Len(completion)]

\* The module-level tables as the modules define them, and a caller that
\* holds no options list yet
InitialHeap ==
    [TAX_RATES |-> TAX_RATES,
     lawyerPricingByProvince |-> lawyerPricingByProvince,
     options |-> <<>>]

Init ==
    /\ pc = "called"
    /\ ret = Undefined
    /\ heap = InitialHeap
    /\ \/ /\ call = "calculateSeverance"
          /\ args \in SweepInput
       \/ /\ call = "calculateSeverance"
          /\ args \in EdgeInput
       \/ /\ call = "ResultsPage"
          /\ args \in [formData : FormData,
                       salaryInputType : {"annual", "hourly"},
                       settings : Settings]
          /\ args.salaryInputType = "hourly" =>
                 args.formData.annualSalary # Some(104000)
       \/ /\ call = "getTaxRate"
          /\ args \in [province : Province \cup OtherCodes
                                      \cup ObjectPrototypeKeys]
       \/ /\ call = "analyzeLawyerCosts"
          /\ args \in AnalysisInput
       \/ /\ call = "getDecisionGuidance"
          /\ \E potentialGap \in {-5000, 0, 20000}, n \in 0 .. MaxOptions :
                 \E positions \in [1 .. n -> 1 .. Len(OptionPool)] :
                     args = [potentialGap |-> potentialGap,
                             options |-> OptionsAt(positions)]

CallCalculateSeverance ==
    /\ call = "calculateSeverance"
    /\ pc = "called"
    /\ pc' = "returned"
    /\ ret' = calculateSeverance(args)
    /\ UNCHANGED <<call, args, heap>>

RenderResultsPage ==
    /\ call = "ResultsPage"
    /\ pc = "called"
    /\ LET completion ==
               ResultsPage(args.formData, args.salaryInputType,
                           args.settings.customHours,
                           args.settings.customContingencyPercentage,
                           args.settings.customFlatFee,
                           args.settings.includeHST)
       IN  /\ pc' = Outcome(completion)
           /\ ret' = Payload(completion)
    /\ UNCHANGED <<call, args, heap>>

CallGetTaxRate ==
    /\ call = "getTaxRate"
    /\ pc = "called"
    /\ pc' = "returned"
    /\ ret' = getTaxRate(args.province)
    /\ UNCHANGED <<call, args, heap>>

CallAnalyzeLawyerCosts ==
    /\ call = "analyzeLawyerCosts"
    /\ pc = "called"
    /\ LET completion ==
               analyzeLawyerCosts(args.lawyerPricing, args.province,
                                  args.currentOffer, args.recommendedAmount,
                                  args.potentialGap, args.statutoryMinimum,
                                  args.customHours,
                                  args.customContingencyPercentage,
                                  args.customFlatFee, args.customTaxRate)
       IN  /\ pc' = Outcome(completion)
           /\ ret' = Payload(completion)
    /\ UNCHANGED <<call, args, heap>>

CallGetDecisionGuidance ==
    /\ call = "getDecisionGuidance"
    /\ pc = "called"
    /\ pc' = "returned"
    /\ ret' = getDecisionGuidance(args.potentialGap, args.options)
    /\ UNCHANGED <<call, args, heap>>

Next ==
    \/ CallCalculateSeverance
    \/ RenderResultsPage
    \/ CallGetTaxRate
    \/ CallAnalyzeLawyerCosts
    \/ CallGetDecisionGuidance

Spec == Init /\ [][Next]_vars

----------------------------------------------------------------------------
(* A session: any sequence of calls, each reading the tables and the       *)
(* caller's objects in the state the calls before it left them.  The calls *)
(* are synchronous, so they do not overlap.                                 *)

\* The calls of a session
SessionSeverance ==
    [province : {"ON", "XX"},
     yearsOfService : {3, 10},
     monthsOfService : {6},
     ageRange : {"41-50"},
     jobPosition : {"professional"},
     annualSalary : {60000},
     isUnionized : BOOLEAN,
     currentOffer : {Undefined},
     employerPayroll : {Some(2500000)}]

SessionInit ==
    /\ call = "none"
    /\ args = <<>>
    /\ pc = "idle"
    /\ ret = Undefined
    /\ heap = InitialHeap

\* The caller makes its next call; it passes the pricing record of the
\* table and the options list it holds
BeginCall ==
    /\ pc # "called"
    /\ pc' = "called"
    /\ ret' = Undefined
    /\ \/ /\ call' = "getTaxRate"
          /\ args' \in [province : {"ON", "QC", "PE", "XX", "toString"}]
       \/ /\ call' = "calculateSeverance"
          /\ args' \in SessionSeverance
       \/ /\ call' = "analyzeLawyerCosts"
          /\ \E province \in {"ON", "PE"} :
                 args' \in [lawyerPricing :
                                {Lookup(heap.lawyerPricingByProvince,
                                        province)},
                            province : {province},
                            currentOffer : {Undefined},
                            recommendedAmount : {40000},
                            potentialGap : {0, 4000, 20000},
                            statutoryMinimum : {16000},
                            customHours : {Undefined},
                            customContingencyPercentage : {Undefined},
                            customFlatFee : {Undefined, Some(3000)},
                            customTaxRate : {Undefined, Some(0)}]
       \/ /\ call' = "getDecisionGuidance"
          /\ args' \in [potentialGap : {0, 20000},
                        options : {heap.options}]
    /\ UNCHANGED heap

\* getTaxRate that stores the default rate under a code the table lacks
SessionGetTaxRate_CachesDefault ==
    /\ call = "getTaxRate"
    /\ pc = "called"
    /\ pc' = "returned"
    /\ ret' = Or(Lookup(heap.TAX_RATES, args.province), Some(5000))
    /\ heap' = [heap EXCEPT !.TAX_RATES =
                    IF Truthy(Lookup(@, args.province)) THEN @
                    ELSE @ @@ (args.province :> 5000)]
    /\ UNCHANGED <<call, args>>

\* TAX_RATES[province] || 0.05 over the table as it is now
SessionGetTaxRate ==
    /\ call = "getTaxRate"
    /\ pc = "called"
    /\ pc' = "returned"
    /\ ret' = Or(Lookup(heap.TAX_RATES, args.province), Some(5000))
    /\ UNCHANGED <<call, args, heap>>

SessionCalculateSeverance ==
    /\ call = "calculateSeverance"
    /\ pc = "called"
    /\ pc' = "returned"
    /\ ret' = calculateSeverance(args)
    /\ UNCHANGED <<call, args, heap>>

\* The analysis reads the tax table as it is now unless a rate is supplied;
\* it builds a new options list, sorts a copy of the candidates, and its
\* caller keeps the list returned
SessionAnalyzeLawyerCosts ==
    /\ call = "analyzeLawyerCosts"
    /\ pc = "called"
    /\ LET taxRate ==
               IF args.customTaxRate # Undefined THEN args.customTaxRate
               ELSE Or(Lookup(heap.TAX_RATES, args.province), Some(5000))
           completion ==
               analyzeLawyerCosts(args.lawyerPricing, args.province,
                                  args.currentOffer, args.recommendedAmount,
                                  args.potentialGap, args.statutoryMinimum,
                                  args.customHours,
                                  args.customContingencyPercentage,
                                  args.customFlatFee, taxRate)
       IN  /\ pc' = Outcome(completion)
           /\ ret' = Payload(completion)
           /\ heap' = [heap EXCEPT !.options =
                           IF Threw(completion) THEN @
                           ELSE ValueOf(completion).options]
    /\ UNCHANGED <<call, args>>

\* The guidance reads the options list the caller holds
SessionGetDecisionGuidance ==
    /\ call = "getDecisionGuidance"
    /\ pc = "called"
    /\ pc' = "returned"
    /\ ret' = getDecisionGuidance(args.potentialGap, heap.options)
    /\ UNCHANGED <<call, args, heap>>

SessionNext ==
    \/ BeginCall
    \/ SessionGetTaxRate
    \/ SessionCalculateSeverance
    \/ SessionAnalyzeLawyerCosts
    \/ SessionGetDecisionGuidance

Session == SessionInit /\ [][SessionNext]_vars

----------------------------------------------------------------------------
(* Properties *)

Returned(f) == call = f /\ pc = "returned"

\* calculateSeverance has returned the estimate of a non-union profile
NonUnionEstimate == Returned("calculateSeverance") /\ ~args.isUnionized

\* years >= 0 and months in 0..11
WellFormedService ==
    args.yearsOfService >= 0 /\ args.monthsOfService \in 0 .. 11

ZeroEstimate ==
    [statutoryMinimum |-> [weeks |-> 0, amount |-> 0],
     commonLawRange |-> [minWeeks |-> 0, maxWeeks |-> 0,
                         minAmount |-> 0, maxAmount |-> 0],
     recommendedRange |-> [weeks |-> 0, amount |-> 0]]

\* C1: for every unionized profile calculateSeverance returns statutory
\* minimum 0/0, common-law range 0/0/0/0, recommended 0/0 and an object with
\* no statutorySeverance field, whatever the other inputs are; the page's
\* results for a unionized employee are that estimate.
C1_UnionAllZero ==
    /\ Returned("calculateSeverance") /\ args.isUnionized =>
           /\ ret = ZeroEstimate
           /\ "statutorySeverance" \notin DOMAIN ret
    /\ Returned("ResultsPage") /\ args.formData.isUnionized
          /\ ret.view = "results" =>
           ret.results = ZeroEstimate

\* a unionized Ontario employee of ten years at a large employer, whose
\* estimate would otherwise be non-zero in every field
C1_Witness ==
    /\ Returned("calculateSeverance")
    /\ args.isUnionized
    /\ args.province = "ON"
    /\ args.yearsOfService = 10
    /\ args.annualSalary = 104000
    /\ args.employerPayroll = Some(2500000)
    /\ ret.recommendedRange.amount = 0

\* C2: for every non-union profile with years >= 0 and months in 0..11 the
\* common-law range returned has minWeeks <= maxWeeks.
C2_RangeNeverInverted ==
    NonUnionEstimate /\ WellFormedService =>
        ret.commonLawRange.minWeeks <= ret.commonLawRange.maxWeeks

\* C3: for every non-union profile with a positive salary, years >= 0 and
\* months in 0..11, minAmount <= recommended amount <= maxAmount.
C3_RecommendedAmountWithinRange ==
    NonUnionEstimate /\ WellFormedService /\ args.annualSalary > 0 =>
        /\ ret.commonLawRange.minAmount <= ret.recommendedRange.amount
        /\ ret.recommendedRange.amount <= ret.commonLawRange.maxAmount

\* C4: for every non-union profile statutorySeverance is present exactly
\* when the province is ON, total service is at least 5 years and a payroll
\* of at least 2,500,000 is given; when present its weeks are
\* min(floor(totalYears), 26), and otherwise the field is undefined.
C4_StatutorySeverancePresence ==
    NonUnionEstimate =>
        LET totalYears ==
                TotalYears12(args.yearsOfService, args.monthsOfService)
            eligible ==
                /\ args.province = "ON"
                /\ totalYears >= 60
                /\ args.employerPayroll # Undefined
                /\ ValueOf(args.employerPayroll) >= 2500000
            severance == Get(ret, "statutorySeverance")
        IN  /\ severance # Undefined <=> eligible
            /\ eligible =>
                   ValueOf(severance).weeks =
                       MathMin(totalYears \div 12, 26)
            /\ ~eligible => severance = Undefined

\* an Ontario employee of more than 26 years whose severance is capped
C4_Witness ==
    /\ NonUnionEstimate
    /\ args.province = "ON"
    /\ args.yearsOfService = 27
    /\ Get(ret, "statutorySeverance") # Undefined
    /\ ValueOf(ret.statutorySeverance).weeks = 26

\* C5: for every non-union profile with totalYears >= 0 the statutory
\* minimum weeks are: Federal, 0 below one year and min(2 +
\* floor(totalYears - 1), 8) from one year on; NB and PE,
\* min(floor(totalYears), 4); every other recognised jurisdiction,
\* min(floor(totalYears), 8); and 0 at totalYears = 0 everywhere.
C5_StatutoryMinimumWeeks ==
    NonUnionEstimate
      /\ TotalYears12(args.yearsOfService, args.monthsOfService) >= 0
      /\ args.province \in Province =>
        LET totalYears ==
                TotalYears12(args.yearsOfService, args.monthsOfService)
            weeks == ret.statutoryMinimum.weeks
        IN  /\ args.province = "Federal" =>
                   weeks = IF totalYears < 12 THEN 0
                           ELSE MathMin(2 + (totalYears - 12) \div 12, 8)
            /\ args.province \in {"NB", "PE"} =>
                   weeks = MathMin(totalYears \div 12, 4)
            /\ args.province \notin {"Federal", "NB", "PE"} =>
                   weeks = MathMin(totalYears \div 12, 8)
            /\ totalYears = 0 => weeks = 0

\* a New Brunswick employee of five years or more, held at the 4-week cap
C5_Witness ==
    /\ NonUnionEstimate
    /\ args.province = "NB"
    /\ args.yearsOfService >= 5
    /\ args.monthsOfService \in 0 .. 11
    /\ ret.statutoryMinimum.weeks = 4

\* annualSalary <= 0, negative years or months, or months outside 0..11
InvalidInput(input) ==
    \/ input.annualSalary <= 0
    \/ input.yearsOfService < 0
    \/ input.monthsOfService < 0
    \/ input.monthsOfService > 11

\* C6: calculateSeverance rejects every profile with annualSalary <= 0,
\* negative years or months, or months outside 0..11: it never returns an
\* estimate computed from such a profile.
C6_RejectsInvalidInput ==
    call = "calculateSeverance" /\ InvalidInput(args) => pc # "returned"

\* C7: for a jurisdiction code that is none of the recognised codes
\* calculateSeverance returns an estimate whose statutory minimum weeks
\* are min(floor(totalYears), 8), whose statutorySeverance is undefined,
\* and whose common-law and recommended figures are those of the same
\* profile under any recognised code.
C7_UnknownJurisdictionFallback ==
    NonUnionEstimate /\ args.province \notin Province =>
        LET totalYears ==
                TotalYears12(args.yearsOfService, args.monthsOfService)
        IN  /\ ret.statutoryMinimum.weeks = MathMin(totalYears \div 12, 8)
            /\ Get(ret, "statutorySeverance") = Undefined
            /\ \A p \in Province :
                   LET known == calculateSeverance(
                                    [args EXCEPT !.province = p])
                   IN  /\ ret.commonLawRange = known.commonLawRange
                       /\ ret.recommendedRange = known.recommendedRange

\* an employee of nine years and more under an unknown code, held at the
\* 8-week cap
C7_Witness ==
    /\ NonUnionEstimate
    /\ args.province = "XX"
    /\ args.yearsOfService >= 9
    /\ args.annualSalary > 0
    /\ ret.statutoryMinimum.weeks = 8
    /\ ret.commonLawRange.maxWeeks > 0

\* C9: getTaxRate returns the table's rate for each of the 14 recognised
\* codes and exactly 0.05 for any other code; what it returns is never
\* undefined and never zero.
C9_TaxRateTableOrDefault ==
    Returned("getTaxRate") =>
        /\ args.province \in Province =>
               ret = Some(TAX_RATES[args.province])
        /\ args.province \notin Province => ret = Some(5000)
        /\ IsNumber(ret) /\ ValueOf(ret) # 0

\* The number of options of a type
CountOfType(options, type) ==
    Len(SelectSeq(options, LAMBDA opt : opt.type = type))

\* The option list has one consultation option, and an hourly, flat and
\* contingency option exactly under the conditions of generation
GeneratedFor(options, pricing, potentialGap) ==
    /\ CountOfType(options, "consultation") = 1
    /\ CountOfType(options, "hourly") >= 1 <=> potentialGap > 0
    /\ CountOfType(options, "flat") >= 1 <=>
           potentialGap > 0 /\ "flatFeeRange" \in DOMAIN pricing
    /\ CountOfType(options, "contingency") >= 1 <=>
           potentialGap > 0 /\ "contingencyFee" \in DOMAIN pricing

\* C8: the pricing lookup yields a pricing record for an unrecognised
\* jurisdiction code, so an analysis requested for such a code, by the page
\* or by a caller that passes on what the lookup gave, completes with a
\* cost analysis that has the consultation option instead of throwing.
C8_DefaultPricingForUnknownCode ==
    /\ call = "ResultsPage" /\ pc # "called"
          /\ args.formData.province \notin Province
          /\ results(args.formData, args.salaryInputType) # Undefined =>
           /\ pc = "returned"
           /\ CountOfType(ret.analysis.options, "consultation") >= 1
    /\ call = "analyzeLawyerCosts" /\ pc # "called"
          /\ args.province \notin Province
          /\ args.lawyerPricing =
                 Lookup(lawyerPricingByProvince, args.province) =>
           /\ IsObject(args.lawyerPricing)
           /\ pc = "returned"
           /\ CountOfType(ret.options, "consultation") >= 1

\* C10: every call of analyzeLawyerCosts that is given a pricing record
\* returns an options list with exactly one consultation option, an hourly
\* option iff potentialGap > 0, a flat option iff potentialGap > 0 and the
\* record defines flatFeeRange, and a contingency option iff
\* potentialGap > 0 and the record defines contingencyFee; so does the
\* analysis the page shows for a jurisdiction of the pricing table.
C10_OptionsGenerated ==
    /\ call = "analyzeLawyerCosts" /\ pc # "called"
          /\ IsObject(args.lawyerPricing) =>
           /\ pc = "returned"
           /\ GeneratedFor(ret.options, ValueOf(args.lawyerPricing),
                           args.potentialGap)
    /\ Returned("ResultsPage") /\ ret.view = "results" =>
           GeneratedFor(ret.analysis.options,
                        lawyerPricingByProvince[args.formData.province],
                        ret.potentialGap)

\* a call with a gap and a pricing record that defines a contingency fee
\* but no flat fee range: consultation, hourly and contingency come back
C10_Witness ==
    /\ Returned("analyzeLawyerCosts")
    /\ args.potentialGap > 0
    /\ "flatFeeRange" \notin DOMAIN ValueOf(args.lawyerPricing)
    /\ "contingencyFee" \in DOMAIN ValueOf(args.lawyerPricing)
    /\ Len(ret.options) = 3
    /\ ret.options[3].type = "contingency"

\* The analysis has the consultation option alone, and recommends it
ConsultationOnly(analysis) ==
    /\ Len(analysis.options) = 1
    /\ analysis.options[1].type = "consultation"
    /\ analysis.recommended = analysis.options[1]

\* C11: when potentialGap <= 0, analyzeLawyerCosts returns an options list
\* whose only element is the consultation option, and that option is the
\* recommended one; the same holds of the analysis the page shows.
C11_NoGapConsultationOnly ==
    /\ Returned("analyzeLawyerCosts") /\ args.potentialGap <= 0 =>
           ConsultationOnly(ret)
    /\ Returned("ResultsPage") /\ ret.view = "results"
          /\ ret.potentialGap <= 0 =>
           ConsultationOnly(ret.analysis)

\* a call with a negative gap, a full pricing record and every custom
\* setting given
C11_Witness ==
    /\ Returned("analyzeLawyerCosts")
    /\ args.potentialGap < 0
    /\ args.lawyerPricing = Some(lawyerPricingByProvince["ON"])
    /\ args.customHours # Undefined
    /\ args.customFlatFee # Undefined
    /\ args.customContingencyPercentage # Undefined
    /\ ret.recommended.type = "consultation"

\* C12: when potentialGap > 0, the recommended option of analyzeLawyerCosts
\* is never the consultation option, for every pricing record and every
\* combination of custom settings.
C12_RecommendedNeverConsultation ==
    /\ Returned("analyzeLawyerCosts") /\ args.potentialGap > 0 =>
           ret.recommended.type # "consultation"
    /\ Returned("ResultsPage") /\ ret.view = "results"
          /\ ret.potentialGap > 0 =>
           ret.analysis.recommended.type # "consultation"

\* a gap of 1 with a pricing record that has neither optional tier: hourly
\* is the only candidate and is recommended, although the consultation has
\* the higher net benefit
C12_Witness ==
    /\ Returned("analyzeLawyerCosts")
    /\ args.potentialGap = 1
    /\ Len(ret.options) = 2
    /\ ret.recommended.type = "hourly"
    /\ ret.options[1].netBenefit > ret.recommended.netBenefit

\* |x|
Abs(x) == IF x < 0 THEN -x ELSE x

\* The options that compete with the contingency option
Competitors(options) ==
    SelectSeq(options,
              LAMBDA opt : opt.type \notin {"consultation", "contingency"})

\* Every competitor's net benefit is within 10% of the gap of the
\* contingency option's: |difference| < 0.10 x potentialGap
AllWithinTenPercent(options, potentialGap) ==
    LET contingency == ValueOf(Find(options, "contingency"))
    IN  \A i \in 1 .. Len(Competitors(options)) :
            10 * Abs(Competitors(options)[i].netBenefit
                     - contingency.netBenefit) < potentialGap

\* C13: when potentialGap > 0, a contingency option is generated and the
\* net benefit of every other non-consultation option is within 10% of
\* potentialGap of the contingency option's, the recommended option is the
\* contingency option, also when another option has the higher net benefit.
C13_TieBreakPrefersContingency ==
    Returned("analyzeLawyerCosts")
      /\ args.potentialGap > 0
      /\ Find(ret.options, "contingency") # Undefined
      /\ AllWithinTenPercent(ret.options, args.potentialGap) =>
        ret.recommended = ValueOf(Find(ret.options, "contingency"))

\* hourly, flat and contingency are all generated and within 10% of the
\* gap of one another's net benefit; contingency has the lowest net benefit
\* of the three and is recommended
C13_Witness ==
    /\ Returned("analyzeLawyerCosts")
    /\ args.potentialGap > 0
    /\ Len(ret.options) = 4
    /\ AllWithinTenPercent(ret.options, args.potentialGap)
    /\ \A i \in 1 .. 2 :
           Competitors(ret.options)[i].netBenefit
               > ValueOf(Find(ret.options, "contingency")).netBenefit
    /\ ret.recommended.type = "contingency"

\* consultation, hourly, flat, contingency
CanonicalOrder == <<"consultation", "hourly", "flat", "contingency">>

\* The titles of one entry per option type present, in canonical order
TitlesFor(options) ==
    LET present ==
            SelectSeq(CanonicalOrder,
                      LAMBDA type :
                          \E i \in 1 .. Len(options) :
                              options[i].type = type)
    IN  [i \in 1 .. Len(present) |-> GuidanceTitle[present[i]]]

\* The titles of the entries of a guidance list
TitlesOf(guidance) == [i \in 1 .. Len(guidance) |-> guidance[i].title]

\* C14: getDecisionGuidance returns exactly one entry for each option type
\* present in the options it is given and none for an absent type, in the
\* order consultation, hourly, flat, contingency, whatever the order of
\* the options given.
C14_GuidanceOnePerTypeInOrder ==
    /\ Returned("getDecisionGuidance") =>
           TitlesOf(ret) = TitlesFor(args.options)
    /\ Returned("ResultsPage") /\ ret.view = "results"
          /\ ret.potentialGap > 0 =>
           TitlesOf(ret.decisionGuidance) = TitlesFor(ret.analysis.options)

\* four options given in the order contingency first, consultation last,
\* with two of one type among them
C14_Witness ==
    /\ Returned("getDecisionGuidance")
    /\ Len(args.options) = 4
    /\ args.options[1].type = "contingency"
    /\ args.options[2].type = "hourly"
    /\ args.options[3].type = "hourly"
    /\ args.options[4].type = "consultation"
    /\ TitlesOf(ret) =
           <<"Consultation Only", "Hourly Rate", "Contingency Fee">>

\* C15: when potentialGap <= 0, guidance composition produces no entries:
\* getDecisionGuidance returns an empty list even when the options it is
\* given contain the consultation option, and the page shows no guidance.
C15_NoGuidanceWithoutGap ==
    /\ Returned("getDecisionGuidance") /\ args.potentialGap <= 0 =>
           ret = <<>>
    /\ Returned("ResultsPage") /\ ret.view = "results"
          /\ ret.potentialGap <= 0 =>
           ret.decisionGuidance = <<>>

\* C15 as amended: when potentialGap <= 0 the results component shows no
\* guidance, although its analysis has the consultation option; the
\* component decides this, before any call of getDecisionGuidance.
C15_ComponentShowsNoGuidanceWithoutGap ==
    Returned("ResultsPage") /\ ret.view = "results"
      /\ ret.potentialGap <= 0 =>
        /\ ret.decisionGuidance = <<>>
        /\ Find(ret.analysis.options, "consultation") # Undefined

\* the page of a non-union employee whose offer is above the recommended
\* amount and whose estimate does not exceed the statutory amounts
C15_Witness ==
    /\ Returned("ResultsPage")
    /\ ret.view = "results"
    /\ ~args.formData.isUnionized
    /\ ret.potentialGap = 0
    /\ Len(ret.analysis.options) = 1
    /\ ret.decisionGuidance = <<>>

\* The jurisdiction's rate in the table, 5% for a code the table lacks
TableRate(province) ==
    IF province \in DOMAIN TAX_RATES THEN TAX_RATES[province] ELSE 5000

\* tax is baseCost x rate / RateUnit rounded to the nearest dollar (halves
\* up), and totalCost is baseCost + tax
TaxedAt(option, rate) ==
    /\ 2 * RateUnit * option.tax <= 2 * option.baseCost * rate + RateUnit
    /\ 2 * option.baseCost * rate + RateUnit < 2 * RateUnit * (option.tax + 1)
    /\ option.totalCost = option.baseCost + option.tax

AllTaxedAt(options, rate) ==
    \A i \in 1 .. Len(options) : TaxedAt(options[i], rate)

\* C16: for every option generated by analyzeLawyerCosts,
\* tax = round(baseCost x effectiveTaxRate) and totalCost = baseCost + tax,
\* where the effective rate is the caller's customTaxRate whenever one is
\* supplied (a supplied 0 gives tax = 0 and totalCost = baseCost for every
\* option) and the jurisdiction's table rate otherwise; the page supplies 0
\* when HST is excluded and the table rate when it is included.
C16_TaxAndTotalCost ==
    /\ Returned("analyzeLawyerCosts") =>
           /\ AllTaxedAt(ret.options,
                         IF args.customTaxRate # Undefined
                         THEN ValueOf(args.customTaxRate)
                         ELSE TableRate(args.province))
           /\ args.customTaxRate = Some(0) =>
                  \A i \in 1 .. Len(ret.options) :
                      /\ ret.options[i].tax = 0
                      /\ ret.options[i].totalCost = ret.options[i].baseCost
    /\ Returned("ResultsPage") /\ ret.view = "results" =>
           AllTaxedAt(ret.analysis.options,
                      IF args.settings.includeHST
                      THEN TableRate(args.formData.province) ELSE 0)

\* an Ontario call with a gap and a supplied rate of 0: four options, none
\* taxed, although Ontario's table rate is 13%
C16_Witness ==
    /\ Returned("analyzeLawyerCosts")
    /\ args.province = "ON"
    /\ args.customTaxRate = Some(0)
    /\ Len(ret.options) = 4
    /\ \A i \in 1 .. 4 :
           /\ ret.options[i].baseCost > 0
           /\ ret.options[i].tax = 0
           /\ ret.options[i].totalCost = ret.options[i].baseCost

\* under-30 < 30-40 < 41-50 < 51-60 < 60-70 < 70+
AgeBrackets == <<"under-30", "30-40", "41-50", "51-60", "60-70", "70+">>

BracketOf(ageRange) ==
    CHOOSE i \in 1 .. Len(AgeBrackets) : AgeBrackets[i] = ageRange

\* The common-law range of the first estimate is nowhere above the second's
RangeAtMost(low, high) ==
    /\ low.commonLawRange.minWeeks <= high.commonLawRange.minWeeks
    /\ low.commonLawRange.maxWeeks <= high.commonLawRange.maxWeeks

\* C17: of two non-union profiles that differ only in age range, the one
\* in the higher bracket has minWeeks and maxWeeks each at least as large;
\* of two that differ only in job position, the one whose position has the
\* larger multiplier never has a smaller minWeeks or maxWeeks.
C17_MonotoneInAgeAndPosition ==
    NonUnionEstimate =>
        /\ \A ageRange \in AgeRange :
               BracketOf(ageRange) > BracketOf(args.ageRange) =>
                   RangeAtMost(ret,
                               calculateSeverance(
                                   [args EXCEPT !.ageRange = ageRange]))
        /\ \A jobPosition \in JobPosition :
               getPositionMultiplier(jobPosition)
                   > getPositionMultiplier(args.jobPosition) =>
                   RangeAtMost(ret,
                               calculateSeverance(
                                   [args EXCEPT !.jobPosition = jobPosition]))

\* x when it is positive, otherwise 0
PositiveOrZero(x) == IF x > 0 THEN x ELSE 0

\* The gap for a recommended amount, an offer and the statutory amount to
\* fall back on; an offer of 0 is no offer
GapOf(recommendedAmount, offer, statutoryAmount) ==
    IF offer # Undefined /\ ValueOf(offer) # 0
       /\ recommendedAmount - ValueOf(offer) > 0
    THEN recommendedAmount - ValueOf(offer)
    ELSE PositiveOrZero(recommendedAmount - statutoryAmount)

\* The page shows results and has handed the gap to the cost analysis
GapHandedOver ==
    /\ Returned("ResultsPage")
    /\ ret.view = "results"
    /\ ret.analysis.potentialGap = ret.potentialGap

\* C18: the potential gap handed to the cost analysis is recommendedAmount
\* - offer when an offer exists and that difference is positive; otherwise
\* recommendedAmount - the statutory minimum notice amount when that is
\* positive; otherwise 0; it is never negative.
C18_PotentialGapFromNoticeAmount ==
    Returned("ResultsPage") /\ ret.view = "results" =>
        /\ ret.analysis.potentialGap =
               GapOf(ret.results.recommendedRange.amount,
                     args.formData.currentOffer,
                     ret.results.statutoryMinimum.amount)
        /\ ret.analysis.potentialGap >= 0

\* C18 as amended: the fallback is recommendedAmount - (statutory minimum
\* notice amount + statutory severance amount when the estimate has one),
\* and an offer of 0 counts as no offer.
C18_PotentialGapFromTotalStatutory ==
    Returned("ResultsPage") /\ ret.view = "results" =>
        /\ ret.analysis.potentialGap =
               GapOf(ret.results.recommendedRange.amount,
                     args.formData.currentOffer,
                     ret.results.statutoryMinimum.amount
                     + (IF Get(ret.results, "statutorySeverance") # Undefined
                        THEN ValueOf(ret.results.statutorySeverance).amount
                        ELSE 0))
        /\ ret.analysis.potentialGap >= 0

\* an Ontario estimate with statutory severance and no offer: the gap is
\* the recommended amount less both statutory amounts
C18_Witness ==
    /\ GapHandedOver
    /\ args.formData.currentOffer = Undefined
    /\ Get(ret.results, "statutorySeverance") # Undefined
    /\ ValueOf(ret.results.statutorySeverance).amount > 0
    /\ ret.potentialGap > 0
    /\ ret.potentialGap =
           ret.results.recommendedRange.amount
           - ret.results.statutoryMinimum.amount
           - ValueOf(ret.results.statutorySeverance).amount

\* amount is weeks x annualSalary / 52 rounded to the nearest dollar,
\* halves up
IsAmountOf(amount, weeks, annualSalary) ==
    /\ 104 * amount <= 2 * weeks * annualSalary + 52
    /\ 2 * weeks * annualSalary + 52 < 104 * (amount + 1)

\* Every amount of the estimate is the amount of its own weeks
AmountsOfWeeks(estimate, annualSalary) ==
    /\ IsAmountOf(estimate.statutoryMinimum.amount,
                  estimate.statutoryMinimum.weeks, annualSalary)
    /\ Get(estimate, "statutorySeverance") # Undefined =>
           IsAmountOf(ValueOf(estimate.statutorySeverance).amount,
                      ValueOf(estimate.statutorySeverance).weeks,
                      annualSalary)
    /\ IsAmountOf(estimate.commonLawRange.minAmount,
                  estimate.commonLawRange.minWeeks, annualSalary)
    /\ IsAmountOf(estimate.commonLawRange.maxAmount,
                  estimate.commonLawRange.maxWeeks, annualSalary)
    /\ IsAmountOf(estimate.recommendedRange.amount,
                  estimate.recommendedRange.weeks, annualSalary)

\* The page has the profile of the worked example: ON, 10 years 0 months,
\* age 41-50, professional, 104,000 a year, not unionized, no payroll
WorkedExample ==
    /\ call = "ResultsPage"
    /\ args.salaryInputType = "annual"
    /\ args.formData.province = "ON"
    /\ args.formData.yearsOfService = 10
    /\ args.formData.monthsOfService = 0
    /\ args.formData.ageRange = "41-50"
    /\ args.formData.jobPosition = "professional"
    /\ args.formData.annualSalary = Some(104000)
    /\ ~args.formData.isUnionized
    /\ args.formData.employerPayroll = Undefined

C20_Stateless ==
    /\ heap.TAX_RATES = TAX_RATES
    /\ heap.lawyerPricingByProvince = lawyerPricingByProvince
    /\ pc = "returned" /\ call = "analyzeLawyerCosts" =>
           /\ Lookup(heap.lawyerPricingByProvince, args.province)
                  = args.lawyerPricing
           /\ ret = ValueOf(analyzeLawyerCosts(
                                args.lawyerPricing, args.province,
                                args.currentOffer, args.recommendedAmount,
                                args.potentialGap, args.statutoryMinimum,
                                args.customHours,
                                args.customContingencyPercentage,
                                args.customFlatFee, args.customTaxRate))
    /\ pc = "returned" /\ call = "getDecisionGuidance" =>
           /\ heap.options = args.options
           /\ ret = getDecisionGuidance(args.potentialGap, args.options)
    /\ pc = "returned" /\ call = "getTaxRate" =>
           ret = getTaxRate(args.province)
    /\ pc = "returned" /\ call = "calculateSeverance" =>
           ret = calculateSeverance(args)

\* guidance for the four options of an analysis made earlier in the
\* session, after which the tables and the list are as before
C20_Witness ==
    /\ call = "getDecisionGuidance"
    /\ pc = "returned"
    /\ Len(heap.options) = 4
    /\ Len(ret) = 4
    /\ heap.TAX_RATES = TAX_RATES

----------------------------------------------------------------------------
(* The common-law range and the recommended figure, restated *)

\* clamp(x, low, high)
Clamp(x, low, high) == IF x < low THEN low ELSE IF x > high THEN high ELSE x

\* The age multipliers in bracket order, in tenths: 0.8, 1.0, 1.2, 1.4,
\* 1.6, 1.8
AgeTenths == <<8, 10, 12, 14, 16, 18>>

\* The position multiplier of the eleven-category table, in tenths
PositionTenths(jobPosition) ==
    CASE jobPosition = "upper-management" -> 18
      [] jobPosition = "middle-management" -> 15
      [] jobPosition = "sales-manager" -> 14
      [] jobPosition = "lower-management" -> 13
      [] jobPosition = "professional" -> 12
      [] jobPosition = "supervisor" -> 11
      [] jobPosition \in {"technical", "social-services"} -> 10
      [] jobPosition \in {"clerical", "salesperson"} -> 9
      [] jobPosition = "labourer" -> 8

\* A = clamp(totalYears, 1, 2) x totalYears x ageMultiplier x
\* positionMultiplier with totalYears = years + months/12, in 1/14400
AdjustedOf(input) ==
    LET totalYears == 12 * input.yearsOfService + input.monthsOfService
    IN  Clamp(totalYears, 12, 24) * totalYears
            * AgeTenths[BracketOf(input.ageRange)]
            * PositionTenths(input.jobPosition)

\* weeks = round(4.33 x months) for months = m / 144000, a half rounded up:
\* weeks <= 4.33 months + 1/2 < weeks + 1
IsWeeksOf(weeks, m) ==
    /\ 14400000 * weeks <= 433 * m + 7200000
    /\ 433 * m + 7200000 < 14400000 * (weeks + 1)

\* C21: for every non-union profile, commonLawRange.minWeeks =
\* round(4.33 x clamp(0.6 x A, 0.5, 6)) and commonLawRange.maxWeeks =
\* round(4.33 x min(1.2 x A, 24)), where A = clamp(totalYears, 1, 2) x
\* totalYears x ageMultiplier x positionMultiplier, totalYears = years +
\* months/12, the age multipliers are 0.8 to 1.8 in bracket order and the
\* position multipliers those of the eleven-category table; each bound is
\* rounded on its own.
C21_CommonLawRangeFormula ==
    NonUnionEstimate =>
        LET A == AdjustedOf(args)
            low == Clamp(6 * A, 72000, 864000)
            high == IF 12 * A < 3456000 THEN 12 * A ELSE 3456000
        IN  /\ IsWeeksOf(ret.commonLawRange.minWeeks, low)
            /\ IsWeeksOf(ret.commonLawRange.maxWeeks, high)

\* 1 year 6 months at 70+ in upper management: A = 1.5 x 1.5 x 1.8 x 1.8 =
\* 7.29, so 4.374 to 8.748 months, 19 to 38 weeks
C21_Witness ==
    /\ NonUnionEstimate
    /\ args.yearsOfService = 1
    /\ args.monthsOfService = 6
    /\ args.ageRange = "70+"
    /\ args.jobPosition = "upper-management"
    /\ ret.commonLawRange.minWeeks = 19
    /\ ret.commonLawRange.maxWeeks = 38

----------------------------------------------------------------------------
(* The recommendation and the options' costs *)

\* The option is one of the list and no competitor of the list has a
\* higher net benefit
BestOf(opt, options) ==
    /\ \E i \in 1 .. Len(options) : options[i] = opt
    /\ \A i \in 1 .. Len(options) : opt.netBenefit >= options[i].netBenefit

\* The hourly and the flat option are both generated, with equal net
\* benefit
HourlyFlatTie(options) ==
    /\ Find(options, "hourly") # Undefined
    /\ Find(options, "flat") # Undefined
    /\ ValueOf(Find(options, "hourly")).netBenefit
           = ValueOf(Find(options, "flat")).netBenefit

\* C23: when potentialGap > 0, the recommended option is a non-contingency
\* option X only if X has the largest net benefit among the generated
\* hourly and flat options and either no contingency option was generated
\* or X.netBenefit - contingency.netBenefit >= 0.10 x potentialGap; with no
\* contingency option the recommended option has the maximum net benefit
\* of all non-consultation options; and when hourly and flat have equal net
\* benefit the flat option is not recommended, so that without a
\* contingency option the hourly option is.
C23_RecommendedBeatsContingency ==
    Returned("analyzeLawyerCosts") /\ args.potentialGap > 0 =>
        LET contingency == Find(ret.options, "contingency")
            X == ret.recommended
        IN  /\ X.type # "contingency" =>
                /\ BestOf(X, Competitors(ret.options))
                /\ \/ contingency = Undefined
                   \/ 10 * (X.netBenefit - ValueOf(contingency).netBenefit)
                          >= args.potentialGap
            /\ contingency = Undefined =>
                   BestOf(X, Competitors(ret.options))
            /\ HourlyFlatTie(ret.options) =>
                /\ X.type # "flat"
                /\ contingency = Undefined => X.type = "hourly"

\* the flat option is recommended over a generated contingency option: it
\* beats the hourly option and is at least 10% of the gap ahead of the
\* contingency option
C23_Witness ==
    /\ Returned("analyzeLawyerCosts")
    /\ args.potentialGap > 0
    /\ Len(ret.options) = 4
    /\ ret.recommended.type = "flat"
    /\ ret.recommended.netBenefit
           > ValueOf(Find(ret.options, "hourly")).netBenefit
    /\ 10 * (ret.recommended.netBenefit
             - ValueOf(Find(ret.options, "contingency")).netBenefit)
           >= args.potentialGap

\* hourly and flat cost the same, no contingency option is generated, and
\* the hourly option is recommended
C23_TieWitness ==
    /\ Returned("analyzeLawyerCosts")
    /\ args.potentialGap > 0
    /\ HourlyFlatTie(ret.options)
    /\ Find(ret.options, "contingency") = Undefined
    /\ ret.recommended.type = "hourly"

\* hourly and flat cost the same and a contingency option further than 10%
\* of the gap behind them is generated: the hourly option is recommended
C23_TieAheadOfContingency ==
    /\ Returned("analyzeLawyerCosts")
    /\ HourlyFlatTie(ret.options)
    /\ Find(ret.options, "contingency") # Undefined
    /\ ret.recommended.type = "hourly"

\* The option of the type in the list returned, which has one
OptionOf(type) == ValueOf(Find(ret.options, type))

C26_ConsultationAndFlatCost ==
    Returned("analyzeLawyerCosts") =>
        LET pricing == ValueOf(args.lawyerPricing)
            consultation == OptionOf("consultation")
            flat == OptionOf("flat")
        IN  /\ Find(ret.options, "consultation") # Undefined
            /\ consultation.baseCost = pricing.consultationFee.average
            /\ consultation.netBenefit
                   = IF args.potentialGap > 0
                     THEN args.potentialGap - consultation.totalCost
                     ELSE -consultation.totalCost
            /\ Find(ret.options, "flat") # Undefined =>
                /\ flat.baseCost
                       = IF args.customFlatFee # Undefined
                         THEN ValueOf(args.customFlatFee)
                         ELSE pricing.flatFeeRange.min
                /\ flat.netBenefit = args.potentialGap - flat.totalCost

\* a gap of 1 at Ontario's prices without overrides: the consultation costs
\* 350 and the flat fee is the minimum of 2,000, both more than the gap
C26_Witness ==
    /\ Returned("analyzeLawyerCosts")
    /\ args.potentialGap = 1
    /\ args.customFlatFee = Undefined
    /\ OptionOf("consultation").baseCost = 350
    /\ OptionOf("consultation").netBenefit
           = 1 - OptionOf("consultation").totalCost
    /\ Find(ret.options, "flat") # Undefined
    /\ OptionOf("flat").baseCost = 2000
    /\ OptionOf("flat").netBenefit < 0

\* no gap: the consultation's net benefit is its cost, negated
C26_NoGapWitness ==
    /\ Returned("analyzeLawyerCosts")
    /\ args.potentialGap = -5000
    /\ OptionOf("consultation").totalCost > 0
    /\ OptionOf("consultation").netBenefit
           = -OptionOf("consultation").totalCost

\* The place of the type in the order consultation, hourly, flat,
\* contingency
PlaceOf(type) ==
    CHOOSE i \in 1 .. Len(CanonicalOrder) : CanonicalOrder[i] = type

\* C27: for every call of analyzeLawyerCosts that returns, the recommended
\* option is an element of the returned options list, the list holds at
\* most one option of each type and always in the order consultation,
\* hourly, flat, contingency, and the returned potentialGap and province
\* equal the arguments.
C27_ResultWellFormed ==
    Returned("analyzeLawyerCosts") =>
        /\ \E i \in 1 .. Len(ret.options) : ret.options[i] = ret.recommended
        /\ \A i, j \in 1 .. Len(ret.options) :
               i < j => PlaceOf(ret.options[i].type)
                            < PlaceOf(ret.options[j].type)
        /\ ret.potentialGap = args.potentialGap
        /\ ret.province = args.province

\* all four options are returned, the last of them recommended, for a
\* jurisdiction code that the tax table does not have
C27_Witness ==
    /\ Returned("analyzeLawyerCosts")
    /\ Len(ret.options) = 4
    /\ ret.options[3].type = "flat"
    /\ ret.options[4] = ret.recommended
    /\ ret.province = "XX"
    /\ ret.potentialGap = 60000

\* The weeks of statutory severance in the estimate, 0 when it has none
SeveranceWeeksOf(estimate) ==
    IF Get(estimate, "statutorySeverance") # Undefined
    THEN ValueOf(estimate.statutorySeverance).weeks
    ELSE 0

\* C28: for every valid non-union profile (yearsOfService >= 0,
\* monthsOfService in 0..11, any jurisdiction, age range, position and
\* payroll), recommendedRange.weeks >= statutoryMinimum.weeks +
\* (statutorySeverance.weeks when present, else 0): the recommended
\* common-law figure is never below the total statutory floor.
C28_RecommendedAboveStatutoryFloor ==
    NonUnionEstimate /\ WellFormedService =>
        ret.recommendedRange.weeks
            >= ret.statutoryMinimum.weeks + SeveranceWeeksOf(ret)

\* Ontario, 5 years, the lowest multipliers and a payroll of 2.5M: 5 weeks
\* of notice and 5 of severance against 25 recommended
C28_Witness ==
    /\ NonUnionEstimate
    /\ WellFormedService
    /\ args.ageRange = "under-30"
    /\ args.jobPosition = "labourer"
    /\ ret.statutoryMinimum.weeks = 5
    /\ SeveranceWeeksOf(ret) = 5
    /\ ret.recommendedRange.weeks = 25

\* a narrow margin: one year under the federal code gives 2 weeks of
\* notice against 3 recommended
C28_NarrowWitness ==
    /\ NonUnionEstimate
    /\ WellFormedService
    /\ ret.statutoryMinimum.weeks = 2
    /\ ret.recommendedRange.weeks = 3

\* What analyzeLawyerCosts completes with for the arguments of the call,
\* but this offer, recommended amount and statutory minimum
AnalysisWith(currentOffer, recommendedAmount, statutoryMinimum) ==
    analyzeLawyerCosts(args.lawyerPricing, args.province, currentOffer,
                       recommendedAmount, args.potentialGap,
                       statutoryMinimum, args.customHours,
                       args.customContingencyPercentage, args.customFlatFee,
                       args.customTaxRate)

\* C29: the options and the recommended option returned by
\* analyzeLawyerCosts depend only on the pricing record, the effective tax
\* rate, potentialGap and the three overrides: a call that differs from
\* this one only in currentOffer, recommendedAmount or statutoryMinimum
\* returns identical options and the same recommended option.
C29_IgnoresOfferAndAmounts ==
    Returned("analyzeLawyerCosts") =>
        \A currentOffer \in {Undefined, Some(0), Some(50000)},
           recommendedAmount \in {0, 100000},
           statutoryMinimum \in {0, 50000} :
            LET other == ValueOf(AnalysisWith(currentOffer,
                                              recommendedAmount,
                                              statutoryMinimum))
            IN  /\ other.options = ret.options
                /\ other.recommended = ret.recommended

\* a call with an offer of 20,000, a recommended amount of 40,000 and a
\* statutory minimum of 16,000 but a gap of 60,000, which none of them
\* accounts for: four options, as for the same gap without an offer
C29_Witness ==
    /\ Returned("analyzeLawyerCosts")
    /\ args.currentOffer = Some(20000)
    /\ args.statutoryMinimum = 16000
    /\ args.potentialGap = 60000
    /\ Len(ret.options) = 4
    /\ ValueOf(AnalysisWith(Undefined, 0, 0)).options = ret.options
    /\ ret.recommended.netBenefit > 0

\* Every amount of the estimate is at least 0
AmountsNonNegative(estimate) ==
    /\ estimate.statutoryMinimum.amount >= 0
    /\ Get(estimate, "statutorySeverance") # Undefined =>
           ValueOf(estimate.statutorySeverance).amount >= 0
    /\ estimate.commonLawRange.minAmount >= 0
    /\ estimate.commonLawRange.maxAmount >= 0
    /\ estimate.recommendedRange.amount >= 0

\* C30: for every valid non-union profile (annualSalary > 0, yearsOfService
\* >= 0, monthsOfService in 0..11), all outputs are non-negative and
\* bounded: 0 <= statutoryMinimum.weeks <= 8, statutorySeverance.weeks is in
\* 5..26 when present, 2 <= commonLawRange.minWeeks <= 26, 0 <=
\* commonLawRange.maxWeeks <= 104, and every amount is >= 0.
C30_OutputsBounded ==
    NonUnionEstimate /\ WellFormedService /\ args.annualSalary > 0 =>
        /\ ret.statutoryMinimum.weeks \in 0 .. 8
        /\ Get(ret, "statutorySeverance") # Undefined =>
               ValueOf(ret.statutorySeverance).weeks \in 5 .. 26
        /\ ret.commonLawRange.minWeeks \in 2 .. 26
        /\ ret.commonLawRange.maxWeeks \in 0 .. 104
        /\ AmountsNonNegative(ret)

\* every upper bound at once: Ontario, 26 years or more, a payroll of 2.5M
C30_Witness ==
    /\ NonUnionEstimate
    /\ WellFormedService
    /\ args.annualSalary > 0
    /\ ret.statutoryMinimum.weeks = 8
    /\ SeveranceWeeksOf(ret) = 26
    /\ ret.commonLawRange.minWeeks = 26
    /\ ret.commonLawRange.maxWeeks = 104
    /\ ret.recommendedRange.amount > 0

\* every lower bound at once: no service at all
C30_LowWitness ==
    /\ NonUnionEstimate
    /\ WellFormedService
    /\ args.annualSalary > 0
    /\ ret.statutoryMinimum.weeks = 0
    /\ ret.commonLawRange.minWeeks = 2
    /\ ret.commonLawRange.maxWeeks = 0
    /\ ret.commonLawRange.maxAmount = 0

====
